---- MODULE Spec2Model ----
(***************************************************************************)
(* Image transcoding / negotiation / caching pipeline of                   *)
(* workspaces/server/src/middlewares/compressMiddleware.ts (imageApp,      *)
(* GET /images/:imageFile) as a state machine.  Each request is a task     *)
(* whose steps are the synchronous stretches of the handler between two    *)
(* awaits; IMAGE_CACHE is the only state shared by the tasks.              *)
(***************************************************************************)
EXTENDS Integers, Sequences, FiniteSets, TLC

(***************************************************************************)
(* Bounds of the model.  MAX_CACHE_SIZE and CACHE_TTL stand for the        *)
(* program's 100 entries and 3600000 ms, scaled down so that the cache     *)
(* fills and entries expire within the explored clock range.               *)
(***************************************************************************)
MAX_CACHE_SIZE == 2
CACHE_TTL == 2
MaxTime == 3
MaxRequests == 3
MaxSeqRequests == 2

Tasks == {1, 2}

(***************************************************************************)
(* Optional values (a query parameter that may be absent): <<>> is         *)
(* undefined, <<v>> is the value v.                                        *)
(***************************************************************************)
Absent == <<>>
Some(v) == <<v>>
IsNullish(m) == m = <<>>
\* JavaScript `!x` for an optional string: undefined and "" are falsy.
Not(m) == m = <<>> \/ m[1] = ""

SUPPORTED_IMAGE_EXTENSIONS == {"jxl", "avif", "webp", "png", "jpeg", "jpg"}

isSupportedImageFormat(ext) == ext \in SUPPORTED_IMAGE_EXTENSIONS

IMAGE_MIME_TYPE(ext) ==
    CASE ext = "avif" -> "image/avif"
      [] ext = "jpeg" -> "image/jpeg"
      [] ext = "jpg"  -> "image/jpeg"
      [] ext = "jxl"  -> "image/jxl"
      [] ext = "png"  -> "image/png"
      [] ext = "webp" -> "image/webp"

(***************************************************************************)
(* The asset store (IMAGES_PATH): a flat directory of <imageId>.<ext>      *)
(* files with their pixel dimensions.  It is read-only for the server.     *)
(***************************************************************************)
IMAGES ==
    { [name |-> "a", ext |-> "png",  width |-> 200, height |-> 200],
      [name |-> "a", ext |-> "webp", width |-> 200, height |-> 200],
      [name |-> "c", ext |-> "png",  width |-> 200, height |-> 100],
      [name |-> "d", ext |-> "bmp",  width |-> 100, height |-> 100] }

NoFile == [name |-> "", ext |-> "", width |-> 0, height |-> 0]

\* The files globby matches for [<id>, <id>.*].
GlobMatches(id) == { f \in IMAGES : f.name = id }

\* fs.access(<id>.webp) resolves.
WebpExists(id) == \E f \in IMAGES : f.name = id /\ f.ext = "webp"

VARIABLES
    IMAGE_CACHE,   \* the Map, as the sequence of its entries in insertion order
    clock,         \* the value Date.now() returns
    globFirst,     \* for each image id, the file globby lists first
    req,           \* per task: the request, the handler's locals, the response
    started,       \* number of requests started so far
    keyed,         \* two requests and the cache keys computed for them
    resized,       \* one decoded image, the size asked for, the size produced
    res,           \* one response on its way out through the middlewares
    streamBody     \* one file stream and the response body made from it

\* The state of the image route.
imageVars == <<IMAGE_CACHE, clock, globFirst, req, started>>

\* The state of the parts studied on their own.
otherVars == <<keyed, resized, res, streamBody>>

vars == <<IMAGE_CACHE, clock, globFirst, req, started,
          keyed, resized, res, streamBody>>

\* The parts studied on their own, before they are given anything to do.
NoKeyed == [pc |-> "idle"]
NoResized == [pc |-> "idle"]
NoRes == [pc |-> "idle"]
NoStreamBody == [pc |-> "idle"]


(***************************************************************************)
(* IMAGE_CACHE = new Map<string, CacheEntry>().  A Map iterates in         *)
(* insertion order and set() of a present key keeps the key's position.    *)
(***************************************************************************)
NoKey == ""

RECURSIVE CacheIndex(_, _, _)
CacheIndex(cache, key, i) ==
    IF i > Len(cache) THEN 0
    ELSE IF cache[i].key = key THEN i
    ELSE CacheIndex(cache, key, i + 1)

CacheHas(cache, key) == CacheIndex(cache, key, 1) # 0

\* Map.prototype.get; only used where the key is present.
CacheGet(cache, key) == cache[CacheIndex(cache, key, 1)]

\* A store that adds an entry without replacing the one under the same key.
CacheSetAppend(cache, entry) == Append(cache, entry)

\* Map.prototype.set
CacheSet(cache, entry) ==
    IF CacheHas(cache, entry.key)
    THEN [cache EXCEPT ![CacheIndex(cache, entry.key, 1)] = entry]
    ELSE Append(cache, entry)

\* Map.prototype.delete
CacheDelete(cache, key) ==
    SelectSeq(cache, LAMBDA e : e.key # key)

\* The loop of evictOldestEntry: the key it ends with, NoKey for null.
RECURSIVE OldestKeyFrom(_, _, _, _)
OldestKeyFrom(cache, i, oldestKey, oldestTime) ==
    IF i > Len(cache) THEN oldestKey
    ELSE IF cache[i].timestamp < oldestTime
         THEN OldestKeyFrom(cache, i + 1, cache[i].key, cache[i].timestamp)
         ELSE OldestKeyFrom(cache, i + 1, oldestKey, oldestTime)

\* A variant that keeps the newest entry seen instead of the oldest.
evictNewestEntry(cache, now) ==
    LET RECURSIVE NewestKeyFrom(_, _, _)
        NewestKeyFrom(i, k, t) ==
            IF i > Len(cache) THEN k
            ELSE IF cache[i].timestamp > t
                 THEN NewestKeyFrom(i + 1, cache[i].key, cache[i].timestamp)
                 ELSE NewestKeyFrom(i + 1, k, t)
        newestKey == NewestKeyFrom(1, NoKey, -1)
    IN  IF newestKey # NoKey THEN CacheDelete(cache, newestKey) ELSE cache

\* evictOldestEntry(), with `now` the value of its Date.now() call.
evictOldestEntry(cache, now) ==
    LET oldestKey == OldestKeyFrom(cache, 1, NoKey, now)
    IN  IF oldestKey # NoKey THEN CacheDelete(cache, oldestKey) ELSE cache

\* `${width ?? 'auto'}` inside the template literal.
\* A key that writes "auto" for every falsy dimension (`||` in place of `??`).
DimTextFalsy(m) == IF IsNullish(m) \/ m[1] = 0 THEN "auto" ELSE ToString(m[1])

\* ${width ?? 'auto'}
DimText(m) == IF IsNullish(m) THEN "auto" ELSE ToString(m[1])

\* const cacheKey = `${reqImgId}_${resImgFormat}_${width ?? 'auto'}_${height ?? 'auto'}`
cacheKey(reqImgId, resImgFormat, width, height) ==
    reqImgId \o "_" \o resImgFormat \o "_" \o DimText(width) \o "_" \o DimText(height)

\* An age test that lets entries expire one time unit early.
IsFreshShort(cache, key, now) ==
    CacheHas(cache, key) /\ (now - CacheGet(cache, key).timestamp) < CACHE_TTL - 1

\* cached && (Date.now() - cached.timestamp) < CACHE_TTL
IsFresh(cache, key, now) ==
    CacheHas(cache, key) /\ (now - CacheGet(cache, key).timestamp) < CACHE_TTL

\* A lookup that refreshes the timestamp of the entry it returns.
CacheTouchedByGet(cache, key, now) ==
    IF IsFresh(cache, key, now)
    THEN [cache EXCEPT ![CacheIndex(cache, key, 1)].timestamp = now]
    ELSE cache

\* A lookup that deletes the entry it finds expired.
CachePurgedByGet(cache, key, now) ==
    IF CacheHas(cache, key) /\ ~IsFresh(cache, key, now)
    THEN CacheDelete(cache, key)
    ELSE cache

\* The cache after IMAGE_CACHE.get(cacheKey) and the age test (lines 219-227):
\* neither writes to the Map.
CacheAfterGet(cache, key, now) == cache

(***************************************************************************)
(* Resize: scale = Math.max(w / image.width, h / image.height) || 1 and    *)
(* the two Math.ceil(dimension * scale).                                   *)
(***************************************************************************)
OrZero(m) == IF IsNullish(m) THEN 0 ELSE m[1]

CeilDiv(n, d) == (n + d - 1) \div d

(***************************************************************************)
(* scale and the two Math.ceil calls (lines 241-246) are computed in IEEE  *)
(* double arithmetic.  For positive integers n, d the quotient n / d is    *)
(* the double M * 2^-k nearest to it (ties to even), with 2^52 <= M <      *)
(* 2^53; QuotientError is n * 2^k - d * M, found by long division.  The    *)
(* product m * (n / d) is then the double nearest to                       *)
(* m * n / d - m * QuotientError / (d * 2^k).  When m * n / d is not an    *)
(* integer the error is far smaller than its distance to an integer and    *)
(* Math.ceil gives the exact ceiling; when it is an integer, Math.ceil     *)
(* gives one more exactly when the error is positive and larger than half  *)
(* the gap between that integer and the next double.                       *)
(***************************************************************************)

\* floor(log2(n / d)) for positive n and d.
RECURSIVE Log2Ratio(_, _)
Log2Ratio(n, d) ==
    IF n >= 2 * d THEN Log2Ratio(n, 2 * d) + 1
    ELSE IF n < d THEN Log2Ratio(2 * n, d) - 1
    ELSE 0

RECURSIVE Pow2(_)
Pow2(k) == IF k = 0 THEN 1 ELSE 2 * Pow2(k - 1)

\* k more binary digits of the quotient: <<remainder, last digit>>.  Once
\* the remainder is 0 every further digit is 0.
RECURSIVE LongDivide(_, _, _, _)
LongDivide(r, digit, k, d) ==
    IF k = 0 THEN <<r, digit>>
    ELSE IF r = 0 THEN <<0, 0>>
    ELSE LongDivide((2 * r) % d, (2 * r) \div d, k - 1, d)

QuotientError(n, d) ==
    LET k == 52 - Log2Ratio(n, d)
        last == LongDivide(n % d, (n \div d) % 2, k, d)
        roundsUp == 2 * last[1] > d \/ (2 * last[1] = d /\ last[2] = 1)
    IN  IF roundsUp THEN last[1] - d ELSE last[1]

\* Math.ceil(m * (n / d)) for positive integers m, n, d.
CeilScaled(m, n, d) ==
    IF (m * n) % d # 0 THEN CeilDiv(m * n, d)
    ELSE LET exact == (m * n) \div d
             over == (0 - m) * QuotientError(n, d)
             t == Log2Ratio(exact, 1) - Log2Ratio(n, d) - 1
         IN  IF over <= 0 THEN exact
             ELSE IF t >= 0
                  THEN IF over > d * Pow2(t) THEN exact + 1 ELSE exact
             ELSE IF over * Pow2(0 - t) > d THEN exact + 1 ELSE exact

\* Lines 241-246: the size passed to image.resize, which image-js gives the
\* output.  scale is the larger of the two quotients, 1 when that is 0.
ResizedDims(ow, oh, width, height) ==
    LET w == OrZero(width)
        h == OrZero(height)
    IN  IF w = 0 /\ h = 0 THEN [width |-> ow, height |-> oh]
        ELSE IF w * oh >= h * ow
             THEN [width |-> CeilScaled(ow, w, ow), height |-> CeilScaled(oh, w, ow)]
             ELSE [width |-> CeilScaled(ow, h, oh), height |-> CeilScaled(oh, h, oh)]

\* The bytes createReadStream(origFilePath) delivers.
FileBytes(f) == [kind |-> "file", name |-> f.name, from |-> f.ext, to |-> f.ext,
                 width |-> f.width, height |-> f.height]

\* The bytes IMAGE_CONVERTER[resImgFormat].encode returns for the resized image.
EncodedBytes(f, resImgFormat, width, height) ==
    LET d == ResizedDims(f.width, f.height, width, height)
    IN  [kind |-> "encoded", name |-> f.name, from |-> f.ext, to |-> resImgFormat,
         width |-> d.width, height |-> d.height]

NoBytes == [kind |-> "none", name |-> "", from |-> "", to |-> "", width |-> 0, height |-> 0]


(***************************************************************************)
(* One request task.  pc names the await the handler is suspended at:      *)
(*   "import"  await import('globby')                    (line 170)        *)
(*   "access"  await fs.access(webpPath)                 (line 184)        *)
(*   "glob"    await globby(origFileGlob)                (line 197)        *)
(*   "read"    await fs.readFile(origFilePath)           (line 236)        *)
(*   "decode"  await IMAGE_CONVERTER[orig].decode        (line 237)        *)
(*   "encode"  await IMAGE_CONVERTER[res].encode         (line 248)        *)
(* "idle" is a task with no request, "done" one whose response is built.   *)
(* The fields after body record what the handler did, for the properties.  *)
(***************************************************************************)
IdleReq ==
    [ pc |-> "idle",
      imageFile |-> [name |-> "", ext |-> ""],
      format |-> Absent, width |-> Absent, height |-> Absent,
      acceptsWebP |-> FALSE,
      resImgFormat |-> "", origFile |-> NoFile, cacheKey |-> NoKey,
      status |-> 0, contentType |-> "", xcache |-> "", vary |-> FALSE,
      body |-> NoBytes,
      probed |-> FALSE, globbed |-> FALSE, streamed |-> FALSE,
      readFile |-> FALSE, decoded |-> FALSE, encoded |-> FALSE,
      lookupNow |-> -1, lookupTs |-> -1,
      sizeBefore |-> -1, minBefore |-> -1, hadKey |-> FALSE, removed |-> <<>> ]

\* throw new HTTPException(status, ...)
Throw(q, status) == [q EXCEPT !.pc = "done", !.status = status]

\* return c.body(...) with the headers set before it
Reply(q, contentType, xcache, vary, body) ==
    [q EXCEPT !.pc = "done", !.status = 200, !.contentType = contentType,
              !.xcache = xcache, !.vary = vary, !.body = body]

\* The handler without the format check: globby is always called.
CheckFormatSkipped(q) == [q EXCEPT !.pc = "glob", !.globbed = TRUE]

\* Lines 192-197: the format check, then the globby call is issued.
CheckFormat(q) ==
    IF ~isSupportedImageFormat(q.resImgFormat)
    THEN Throw(q, 501)
    ELSE [q EXCEPT !.pc = "glob", !.globbed = TRUE]

\* A request arrives; the handler runs up to await import('globby').
Start(r, file, format, width, height, accept) ==
    /\ req[r].pc \in {"idle", "done"}
    /\ req' = [req EXCEPT ![r] =
                 [IdleReq EXCEPT !.pc = "import", !.imageFile = file,
                                 !.format = format, !.width = width,
                                 !.height = height, !.acceptsWebP = accept]]
    /\ UNCHANGED <<IMAGE_CACHE, clock, globFirst>>

\* Lines 172-197 up to the next await.
Negotiate(r) ==
    LET q == req[r]
        reqImgId == q.imageFile.name
        resImgFormat == IF IsNullish(q.format) THEN q.imageFile.ext ELSE q.format[1]
        q1 == [q EXCEPT !.resImgFormat = resImgFormat]
    IN  /\ q.pc = "import"
        /\ req' = [req EXCEPT ![r] =
                     IF Not(q.format) /\ q.acceptsWebP /\ resImgFormat # "webp"
                     THEN [q1 EXCEPT !.pc = "access", !.probed = TRUE]
                     ELSE CheckFormat(q1)]
        /\ UNCHANGED <<IMAGE_CACHE, clock, globFirst, started>>

\* fs.access settles (lines 184-197).
AccessDone(r) ==
    LET q == req[r]
        q1 == IF WebpExists(q.imageFile.name)
              THEN [q EXCEPT !.resImgFormat = "webp"]
              ELSE q
    IN  /\ q.pc = "access"
        /\ req' = [req EXCEPT ![r] = CheckFormat(q1)]
        /\ UNCHANGED <<IMAGE_CACHE, clock, globFirst, started>>

\* Whether the handler takes the first return (lines 208-213).
IsWebpBypass(q, origImgFormat) ==
    /\ q.resImgFormat = "webp" /\ origImgFormat = "webp"
    /\ IsNullish(q.width) /\ IsNullish(q.height)

\* The third return's test with the size condition negated.
IsPlainBypassSized(q, origImgFormat) ==
    /\ q.resImgFormat = origImgFormat
    /\ ~(IsNullish(q.width) /\ IsNullish(q.height))

\* Whether the handler takes the third return (lines 229-234).
IsPlainBypass(q, origImgFormat) ==
    /\ q.resImgFormat = origImgFormat
    /\ IsNullish(q.width) /\ IsNullish(q.height)

\* The Vary condition of the HIT and MISS returns (lines 223, 268).
VaryOnNegotiation(q) == q.resImgFormat = "webp" /\ Not(q.format)

\* The Vary header of the first return (line 211).
VaryOnWebpBypass(q) == TRUE

\* A test that never reports a missing origin.
OriginNeverMissing(matches) == FALSE

\* origFilePath == null (line 198)
OriginMissing(matches) == matches = {}

\* globby settles (lines 198-236).
GlobDone(r) ==
    LET q == req[r]
        matches == GlobMatches(q.imageFile.name)
        origFile == globFirst[q.imageFile.name]
        origImgFormat == origFile.ext
        key == cacheKey(q.imageFile.name, q.resImgFormat, q.width, q.height)
        q1 == [q EXCEPT !.origFile = origFile]
        q2 == [q1 EXCEPT !.cacheKey = key, !.lookupNow = clock,
                         !.lookupTs = IF CacheHas(IMAGE_CACHE, key)
                                      THEN CacheGet(IMAGE_CACHE, key).timestamp
                                      ELSE -1]
    IN  /\ q.pc = "glob"
        /\ req' = [req EXCEPT ![r] =
             IF OriginMissing(matches) THEN Throw(q, 404)
             ELSE IF ~isSupportedImageFormat(origImgFormat) THEN Throw(q1, 500)
             ELSE IF IsWebpBypass(q1, origImgFormat)
                  THEN Reply([q1 EXCEPT !.streamed = TRUE], IMAGE_MIME_TYPE("webp"),
                             "BYPASS", VaryOnWebpBypass(q1), FileBytes(origFile))
             ELSE IF IsFresh(IMAGE_CACHE, key, clock)
                  THEN Reply(q2, CacheGet(IMAGE_CACHE, key).mimeType, "HIT",
                             VaryOnNegotiation(q2), CacheGet(IMAGE_CACHE, key).data)
             ELSE IF IsPlainBypass(q2, origImgFormat)
                  THEN Reply([q2 EXCEPT !.streamed = TRUE],
                             IMAGE_MIME_TYPE(q2.resImgFormat), "BYPASS", FALSE,
                             FileBytes(origFile))
             ELSE [q2 EXCEPT !.pc = "read", !.readFile = TRUE]]
        /\ IMAGE_CACHE' =
             IF OriginMissing(matches) \/ ~isSupportedImageFormat(origImgFormat)
                \/ IsWebpBypass(q1, origImgFormat)
             THEN IMAGE_CACHE
             ELSE CacheAfterGet(IMAGE_CACHE, key, clock)
        /\ UNCHANGED <<clock, globFirst, started>>

\* fs.readFile settles; decode is called (lines 236-237).
ReadDone(r) ==
    /\ req[r].pc = "read"
    /\ req' = [req EXCEPT ![r] = [@ EXCEPT !.pc = "decode", !.decoded = TRUE,
                                            !.lookupNow = -1, !.lookupTs = -1]]
    /\ UNCHANGED <<IMAGE_CACHE, clock, globFirst, started>>

\* decode resolves; the image is resized and encode is called (lines 237-253).
DecodeDone(r) ==
    /\ req[r].pc = "decode"
    /\ req' = [req EXCEPT ![r] = [@ EXCEPT !.pc = "encode", !.encoded = TRUE]]
    /\ UNCHANGED <<IMAGE_CACHE, clock, globFirst, started>>

\* A handler that stores its entry before the conversion has succeeded.
ConvertFailStoring(r) ==
    /\ req[r].pc \in {"decode", "encode"}
    /\ IMAGE_CACHE' = CacheSet(IMAGE_CACHE,
                        [key |-> req[r].cacheKey, data |-> NoBytes,
                         mimeType |-> IMAGE_MIME_TYPE(req[r].resImgFormat),
                         timestamp |-> clock])
    /\ req' = [req EXCEPT ![r] = Throw(@, 500)]
    /\ UNCHANGED <<clock, globFirst, started>>

\* decode, resize or encode rejects or throws: the handler ends with the error.
ConvertFail(r) ==
    /\ req[r].pc \in {"decode", "encode"}
    /\ req' = [req EXCEPT ![r] = Throw(@, 500)]
    /\ UNCHANGED <<IMAGE_CACHE, clock, globFirst, started>>

\* Lines 256-258, with `now` the clock value evictOldestEntry reads.
EvictIfFull(cache, now) ==
    IF Len(cache) >= MAX_CACHE_SIZE THEN evictOldestEntry(cache, now) ELSE cache

Min(S) == CHOOSE x \in S : \A y \in S : x <= y

\* encode resolves; the result is stored and returned (lines 255-271).
\* Date.now() is read at line 137 and again at line 263.
EncodeDone(r) ==
    LET q == req[r]
        resBinary == EncodedBytes(q.origFile, q.resImgFormat, q.width, q.height)
    IN  /\ q.pc = "encode"
        /\ \E now2 \in {clock, clock + 1} :
             /\ now2 <= MaxTime
             /\ LET evicted == EvictIfFull(IMAGE_CACHE, clock)
                    entry == [key |-> q.cacheKey, data |-> resBinary,
                              mimeType |-> IMAGE_MIME_TYPE(q.resImgFormat),
                              timestamp |-> now2]
                    q1 == [q EXCEPT
                             !.sizeBefore = Len(IMAGE_CACHE),
                             !.hadKey = CacheHas(IMAGE_CACHE, q.cacheKey),
                             !.minBefore = IF IMAGE_CACHE = <<>> THEN -1
                                           ELSE Min({ IMAGE_CACHE[i].timestamp :
                                                      i \in 1..Len(IMAGE_CACHE) }),
                             !.removed = SelectSeq(IMAGE_CACHE,
                                           LAMBDA e : ~CacheHas(evicted, e.key))]
                IN  /\ IMAGE_CACHE' = CacheSet(evicted, entry)
                    /\ clock' = now2
                    /\ req' = [req EXCEPT ![r] =
                                 Reply(q1, IMAGE_MIME_TYPE(q.resImgFormat), "MISS",
                                       VaryOnNegotiation(q), resBinary)]
        /\ UNCHANGED <<globFirst, started>>

\* Time passes between two steps.
Tick ==
    /\ clock < MaxTime
    /\ clock' = clock + 1
    /\ UNCHANGED <<IMAGE_CACHE, globFirst, req, started>>


(***************************************************************************)
(* The requests explored.  Spec runs MaxRequests requests on concurrent    *)
(* tasks over a small set of requests for one image, so that the cache     *)
(* fills, entries expire and two tasks meet on one key.  SpecSeq runs      *)
(* MaxSeqRequests requests one after the other over every combination of   *)
(* image, format parameter, width and Accept header below.                 *)
(***************************************************************************)
ImageIds == {"a", "c", "d", "e"}

ConcFiles   == { [name |-> "a", ext |-> "png"] }
ConcFormats == { Absent }
ConcWidths  == { Absent, Some(100) }
ConcHeights == { Absent }
ConcAccepts == { FALSE, TRUE }

SeqFiles   == { [name |-> n, ext |-> "png"] : n \in ImageIds }
SeqFormats == { Absent, Some(""), Some("webp"), Some("tiff") }
SeqWidths  == { Absent, Some(100) }
SeqHeights == { Absent }
SeqAccepts == BOOLEAN

Init ==
    /\ IMAGE_CACHE = <<>>
    /\ clock = 0
    /\ globFirst \in { g \in [ImageIds -> IMAGES \cup {NoFile}] :
                         \A id \in ImageIds :
                            IF GlobMatches(id) = {} THEN g[id] = NoFile
                            ELSE g[id] \in GlobMatches(id) }
    /\ req = [r \in Tasks |-> IdleReq]
    /\ started = 0
    /\ keyed = NoKeyed
    /\ resized = NoResized
    /\ res = NoRes
    /\ streamBody = NoStreamBody

Request(r) ==
    /\ \E file \in ConcFiles, format \in ConcFormats, width \in ConcWidths,
          height \in ConcHeights, accept \in ConcAccepts :
          Start(r, file, format, width, height, accept)
    /\ started < MaxRequests
    /\ started' = started + 1

RequestSeq ==
    /\ started < MaxSeqRequests
    /\ \E file \in SeqFiles, format \in SeqFormats, width \in SeqWidths,
          height \in SeqHeights, accept \in SeqAccepts :
          Start(1, file, format, width, height, accept)
    /\ started' = started + 1

Next ==
    \/ \E r \in Tasks : Request(r) /\ UNCHANGED otherVars
    \/ \E r \in Tasks : Negotiate(r) /\ UNCHANGED otherVars
    \/ \E r \in Tasks : AccessDone(r) /\ UNCHANGED otherVars
    \/ \E r \in Tasks : GlobDone(r) /\ UNCHANGED otherVars
    \/ \E r \in Tasks : ReadDone(r) /\ UNCHANGED otherVars
    \/ \E r \in Tasks : DecodeDone(r) /\ UNCHANGED otherVars
    \/ \E r \in Tasks : ConvertFail(r) /\ UNCHANGED otherVars
    \/ \E r \in Tasks : EncodeDone(r) /\ UNCHANGED otherVars
    \/ Tick /\ UNCHANGED otherVars

Spec == Init /\ [][Next]_vars

NextSeq ==
    \/ RequestSeq /\ UNCHANGED otherVars
    \/ Negotiate(1) /\ UNCHANGED otherVars
    \/ AccessDone(1) /\ UNCHANGED otherVars
    \/ GlobDone(1) /\ UNCHANGED otherVars
    \/ ReadDone(1) /\ UNCHANGED otherVars
    \/ DecodeDone(1) /\ UNCHANGED otherVars
    \/ ConvertFail(1) /\ UNCHANGED otherVars
    \/ EncodeDone(1) /\ UNCHANGED otherVars
    \/ Tick /\ UNCHANGED otherVars

SpecSeq == Init /\ [][NextSeq]_vars


(***************************************************************************)
(* The cache key on its own: SpecKey takes two requests that passed the    *)
(* validators (lines 153-167) and the format check (line 192), and builds  *)
(* the key of each as line 216 does.                                       *)
(***************************************************************************)
KeyIds     == { "a", "a-1" }
KeyFormats == { "png", "webp", "jpg", "jpeg" }
KeyDims    == { Absent, Some(0), Some(1), Some(10), Some(100) }

KeyRequests ==
    [ id : KeyIds, format : KeyFormats, width : KeyDims, height : KeyDims ]

InitKey ==
    /\ IMAGE_CACHE = <<>> /\ clock = 0 /\ started = 0
    /\ globFirst = [id \in ImageIds |-> NoFile]
    /\ req = [r \in Tasks |-> IdleReq]
    /\ resized = NoResized /\ res = NoRes /\ streamBody = NoStreamBody
    /\ keyed \in [ pc : {"args"}, a : KeyRequests, b : KeyRequests,
                   ka : {NoKey}, kb : {NoKey} ]

\* Line 216, for each of the two requests.
ComputeKeys ==
    /\ keyed.pc = "args"
    /\ keyed' = [keyed EXCEPT
                   !.pc = "done",
                   !.ka = cacheKey(keyed.a.id, keyed.a.format,
                                   keyed.a.width, keyed.a.height),
                   !.kb = cacheKey(keyed.b.id, keyed.b.format,
                                   keyed.b.width, keyed.b.height)]
    /\ UNCHANGED <<imageVars, resized, res, streamBody>>

NextKey == ComputeKeys

SpecKey == InitKey /\ [][NextKey]_vars


(***************************************************************************)
(* The two response middlewares on their own.  SpecMw takes one response   *)
(* as the handler left it and passes it through compressMiddleware and     *)
(* cacheControlMiddleware, in either order of registration.  A header is   *)
(* absent or a string; Cache-Control is the sequence of the values given   *)
(* to it, which Headers.get joins with ", ".                               *)
(***************************************************************************)

\* String.prototype.startsWith
StartsWith(s, p) == Len(s) >= Len(p) /\ SubSeq(s, 1, Len(p)) = p

\* String.prototype.includes
Includes(s, p) ==
    \E i \in 1..(Len(s) - Len(p) + 1) : SubSeq(s, i, i + Len(p) - 1) = p

DigitOf(ch) ==
    CASE ch = "0" -> 0 [] ch = "1" -> 1 [] ch = "2" -> 2 [] ch = "3" -> 3
      [] ch = "4" -> 4 [] ch = "5" -> 5 [] ch = "6" -> 6 [] ch = "7" -> 7
      [] ch = "8" -> 8 [] ch = "9" -> 9 [] OTHER -> -1

NaN == <<>>

\* parseInt on an unsigned decimal string: the value of the leading digits,
\* NaN when there is none.
RECURSIVE ParseDigits(_, _, _)
ParseDigits(s, i, acc) ==
    IF i > Len(s) \/ DigitOf(SubSeq(s, i, i)) < 0
    THEN IF i = 1 THEN NaN ELSE Some(acc)
    ELSE ParseDigits(s, i + 1, acc * 10 + DigitOf(SubSeq(s, i, i)))

parseInt(s) == ParseDigits(s, 1, 0)

\* h || d for a header value h
OrElse(h, d) == IF Not(h) THEN d ELSE h[1]

\* encoding(header, ['zstd']): the answer of @hapi/accept for the headers
\* explored, "zstd" when the header admits it and "" when it does not.
encoding(header) ==
    IF IsNullish(header) THEN ""
    ELSE IF Includes(header[1], "zstd") \/ header[1] = "*" THEN "zstd"
    ELSE ""

\* Headers.prototype.append, set and delete on one header.
HeadersAppend(values, v) == Append(values, v)
\* A set that adds the value to the ones already there.
HeadersSetAppending(values, v) == Append(values, v)
HeadersSet(values, v) == <<v>>

\* contentLength > 0 && contentLength < 1024 (line 18); a comparison with
\* NaN is false.
IsSmall(contentLength) ==
    contentLength # NaN /\ contentLength[1] > 0 /\ contentLength[1] < 1024

\* Lines 32-38.
CompressionLevel(contentType) ==
    IF Includes(contentType, "json") \/ Includes(contentType, "javascript")
       \/ Includes(contentType, "css")
    THEN 6
    ELSE IF Includes(contentType, "html") THEN 5
    ELSE 3

\* compressMiddleware after next() has returned (lines 9-57).
compressMiddleware(q) ==
    LET accept == encoding(q.acceptEncoding)
        contentType == OrElse(q.contentType, "")
        contentLength == parseInt(OrElse(q.contentLength, "0"))
        marked == [q EXCEPT !.cacheControl = HeadersAppend(@, "no-transform")]
    IN  IF IsSmall(contentLength) THEN marked
        ELSE IF StartsWith(contentType, "image/") THEN marked
        ELSE IF accept = "zstd"
             THEN [marked EXCEPT
                     !.body = [@ EXCEPT !.coding = "zstd",
                                        !.level = CompressionLevel(contentType)],
                     !.contentLength = Absent,
                     !.contentEncoding = Some("zstd")]
        ELSE marked

LongLived == "public, max-age=31536000, immutable"
Revalidate == "private, max-age=0, must-revalidate"
NoStore == "private, no-store"

\* The value cacheControlMiddleware chooses (lines 105-119).
CacheControlFor(url, contentType) ==
    IF StartsWith(contentType, "image/") \/ Includes(url, "/images/")
       \/ Includes(url, "/assets/")
    THEN LongLived
    ELSE IF Includes(contentType, "javascript") \/ Includes(contentType, "css")
    THEN LongLived
    ELSE IF Includes(contentType, "json") \/ Includes(contentType, "html")
    THEN Revalidate
    ELSE NoStore

\* cacheControlMiddleware after next() has returned (lines 101-119).
cacheControlMiddleware(q) ==
    [q EXCEPT !.cacheControl =
        HeadersSet(@, CacheControlFor(q.url, OrElse(q.contentType, "")))]

MwUrls == { "http://localhost:8000/api/v1/books",
            "http://localhost:8000/images/a.png",
            "http://localhost:8000/assets/client.global.js",
            "http://localhost:8000/" }
MwContentTypes == { Absent, Some("image/png"), Some("application/json"),
                    Some("text/javascript"), Some("text/css"),
                    Some("text/html; charset=utf-8"), Some("text/plain") }
MwContentLengths == { Absent, Some("0"), Some("500"), Some("1023"),
                      Some("1024"), Some("2000") }
MwAcceptEncodings == { Absent, Some("gzip, deflate, br"),
                       Some("gzip, deflate, br, zstd"), Some("zstd") }
MwCacheControls == { <<>>, <<"no-cache">> }
\* The middlewares in the order in which their code after next() runs.
MwOrders == { <<"compress", "cacheControl">>, <<"cacheControl", "compress">> }

PlainBody == [content |-> "payload", coding |-> "identity", level |-> 0]

InitMw ==
    /\ IMAGE_CACHE = <<>> /\ clock = 0 /\ started = 0
    /\ globFirst = [id \in ImageIds |-> NoFile]
    /\ req = [r \in Tasks |-> IdleReq]
    /\ keyed = NoKeyed /\ resized = NoResized /\ streamBody = NoStreamBody
    /\ res \in [ pc : {"handled"}, url : MwUrls,
                 acceptEncoding : MwAcceptEncodings,
                 contentType : MwContentTypes,
                 contentLength : MwContentLengths,
                 contentEncoding : {Absent},
                 cacheControl : MwCacheControls,
                 body : {PlainBody},
                 todo : MwOrders, ran : {<<>>},
                 given : {Absent}, before : {<<>>} ]

\* The next middleware to resume is q's stage; it runs and returns.
Resume(stage, q) ==
    /\ res.pc = "handled" /\ res.todo # <<>> /\ Head(res.todo) = stage
    /\ res' = [q EXCEPT !.todo = Tail(res.todo),
                        !.ran = Append(res.ran, stage),
                        !.pc = IF Tail(res.todo) = <<>> THEN "sent" ELSE "handled"]
    /\ UNCHANGED <<imageVars, keyed, resized, streamBody>>

\* given is the Content-Length the stage was handed, before the values of
\* Cache-Control at that moment.
Compress ==
    Resume("compress",
           compressMiddleware([res EXCEPT !.given = res.contentLength,
                                          !.before = res.cacheControl]))

CacheControl == Resume("cacheControl", cacheControlMiddleware(res))

NextMw == Compress \/ CacheControl

SpecMw == InitMw /\ [][NextMw]_vars


(***************************************************************************)
(* The resize on its own: SpecResize takes a decoded image and the width   *)
(* and height of a request that reached the transcode branch and computes  *)
(* the size of the output (lines 239-246).                                 *)
(***************************************************************************)
ResizeOrigins == { <<200, 200>>, <<200, 100>>, <<100, 100>>, <<640, 480>> }
ResizeWidths  == { Absent, Some(7), Some(50), Some(100), Some(300) }
ResizeHeights == { Absent, Some(7), Some(50), Some(100) }

InitResize ==
    /\ IMAGE_CACHE = <<>> /\ clock = 0 /\ started = 0
    /\ globFirst = [id \in ImageIds |-> NoFile]
    /\ req = [r \in Tasks |-> IdleReq]
    /\ keyed = NoKeyed /\ res = NoRes /\ streamBody = NoStreamBody
    /\ \E o \in ResizeOrigins, w \in ResizeWidths, h \in ResizeHeights :
          resized = [pc |-> "decoded", ow |-> o[1], oh |-> o[2],
                     width |-> w, height |-> h, out |-> <<>>]

\* Lines 241-246.
Resize ==
    /\ resized.pc = "decoded"
    /\ resized' = [resized EXCEPT
                     !.pc = "resized",
                     !.out = ResizedDims(resized.ow, resized.oh,
                                         resized.width, resized.height)]
    /\ UNCHANGED <<imageVars, keyed, res, streamBody>>

NextResize == Resize

SpecResize == InitResize /\ [][NextResize]_vars


(***************************************************************************)
(* The body of a bypass response on its own: SpecStream starts when        *)
(* createStreamBody(createReadStream(origFilePath)) has returned, the      *)
(* 'data' and 'end' listeners registered and the file of `size` chunks     *)
(* flowing.  file is the state of the ReadStream ("closed": descriptor     *)
(* released), body that of the ReadableStream, queue the chunks enqueued   *)
(* and not yet read, closing whether controller.close() has been called.   *)
(* No 'error' listener is registered (lines 85-90): an 'error' event is    *)
(* thrown as an uncaught exception, which ends the process unless the      *)
(* process has a handler for it.                                           *)
(***************************************************************************)
MaxChunks == 3

InitStream ==
    /\ IMAGE_CACHE = <<>> /\ clock = 0 /\ started = 0
    /\ globFirst = [id \in ImageIds |-> NoFile]
    /\ req = [r \in Tasks |-> IdleReq]
    /\ keyed = NoKeyed /\ resized = NoResized /\ res = NoRes
    /\ \E n \in 0..MaxChunks :
          streamBody = [pc |-> "streaming", size |-> n, sent |-> 0,
                        queue |-> 0, read |-> 0, file |-> "flowing",
                        body |-> "readable", closing |-> FALSE,
                        process |-> "up"]

StreamStep(next) ==
    /\ streamBody.pc = "streaming" /\ streamBody.process = "up"
    /\ streamBody' = next
    /\ UNCHANGED <<imageVars, keyed, resized, res>>

\* stream.on('data', ...): the chunk is enqueued (lines 85-87).
Data ==
    /\ streamBody.file = "flowing" /\ streamBody.sent < streamBody.size
    /\ StreamStep([streamBody EXCEPT !.sent = @ + 1, !.queue = @ + 1])

\* stream.on('end', ...): controller.close() (lines 88-90); the body is
\* closed once the queue is empty.
End ==
    /\ streamBody.file = "flowing" /\ streamBody.sent = streamBody.size
    /\ StreamStep([streamBody EXCEPT
                     !.file = "ended", !.closing = TRUE,
                     !.body = IF streamBody.queue = 0 THEN "closed" ELSE @])

\* The ReadStream closes its descriptor after 'end', an error or destroy().
Close ==
    /\ streamBody.file \in {"ended", "errored", "destroyed"}
    /\ StreamStep([streamBody EXCEPT !.file = "closed"])

\* The consumer of the response body reads one chunk.
Read ==
    /\ streamBody.body = "readable" /\ streamBody.queue > 0
    /\ StreamStep([streamBody EXCEPT
                     !.queue = @ - 1, !.read = @ + 1,
                     !.body = IF streamBody.closing /\ streamBody.queue = 1
                              THEN "closed" ELSE @])

\* The client goes away: cancel() calls stream.destroy() (lines 81-83).
Cancel ==
    /\ streamBody.body = "readable"
    /\ StreamStep([streamBody EXCEPT
                     !.body = "cancelled", !.queue = 0,
                     !.file = IF @ \in {"flowing", "ended"} THEN "destroyed" ELSE @])

\* A read of the file fails and the process handles the uncaught exception:
\* the ReadStream is destroyed, nothing is told to the controller.
ReadErrorHandled ==
    /\ streamBody.file = "flowing"
    /\ StreamStep([streamBody EXCEPT !.file = "errored"])

\* A read of the file fails and the uncaught exception ends the process,
\* and with it the descriptor and the connection.
ReadErrorFatal ==
    /\ streamBody.file = "flowing"
    /\ StreamStep([streamBody EXCEPT !.file = "closed", !.body = "errored",
                                     !.queue = 0, !.process = "down"])

NextStream ==
    \/ Data
    \/ End
    \/ Close
    \/ Read
    \/ Cancel
    \/ ReadErrorHandled
    \/ ReadErrorFatal

\* The file stream and the consumer keep going; a cancellation or a read
\* error may or may not happen.
SpecStream ==
    /\ InitStream /\ [][NextStream]_vars
    /\ WF_vars(Data) /\ WF_vars(End) /\ WF_vars(Close) /\ WF_vars(Read)


(***************************************************************************)
(* Properties of the Response Cache (checked under Spec).                  *)
(***************************************************************************)

\* Task r has just stored its result (lines 255-271).
Stored(r) == req[r].pc = "done" /\ req[r].xcache = "MISS"

\* The step in which task r's globby call settles and the handler runs the
\* origin checks, the cache lookup and the bypass tests.
LookupStep(r) == req[r].pc = "glob" /\ req'[r].pc # "glob"

\* Task r looked its key up and found an entry.
FoundEntry(q) == q.lookupTs >= 0

\* C1: in every reachable state the Response Cache holds at most
\* MAX_CACHE_SIZE entries.
C1_CacheBounded == Len(IMAGE_CACHE) <= MAX_CACHE_SIZE

C3_EvictsExactlyOne ==
    \A r \in Tasks :
        Stored(r) =>
            Len(req[r].removed) = (IF req[r].sizeBefore >= MAX_CACHE_SIZE THEN 1 ELSE 0)

\* C4: a lookup never changes the cache, so an entry's timestamp stays what
\* its insertion set, however often it is read; and a lookup later than
\* timestamp + CACHE_TTL is not answered from the cache.
C4_ReadKeepsExpiry ==
    [][ \A r \in Tasks :
          LookupStep(r) =>
             /\ IMAGE_CACHE' = IMAGE_CACHE
             /\ (FoundEntry(req'[r]) /\ clock > req'[r].lookupTs + CACHE_TTL)
                   => (req'[r].xcache # "HIT" /\ req'[r].pc = "read") ]_vars

\* One task was answered HIT from an entry and another task, looking the
\* same entry up after its expiry, went on to transcode.
C4_Witness ==
    \E r1, r2 \in Tasks :
        /\ req[r1].pc = "done" /\ req[r1].xcache = "HIT"
        /\ req[r2].pc = "read" /\ req[r2].cacheKey = req[r1].cacheKey
        /\ req[r2].lookupTs = req[r1].lookupTs
        /\ req[r2].lookupNow > req[r2].lookupTs + CACHE_TTL

\* C5: a lookup that finds an entry of age >= CACHE_TTL is a miss (the
\* request goes on to the bypass or the transcode branch) and leaves the
\* entry in the cache; the cache changes only when a task stores a result.
C5_LazyExpiry ==
    [][ /\ \A r \in Tasks :
             (LookupStep(r) /\ FoundEntry(req'[r])
                /\ req'[r].lookupNow - req'[r].lookupTs >= CACHE_TTL)
                => /\ req'[r].xcache # "HIT"
                   /\ req'[r].pc = "read" \/ req'[r].xcache = "BYPASS"
                   /\ IMAGE_CACHE' = IMAGE_CACHE
        /\ IMAGE_CACHE' # IMAGE_CACHE =>
              \E r \in Tasks : req[r].pc = "encode" /\ Stored(r)' ]_vars

\* A task missed on an expired entry that is still in the cache, which is
\* full.
C5_Witness ==
    \E r \in Tasks :
        /\ req[r].pc = "read" /\ FoundEntry(req[r])
        /\ req[r].lookupNow - req[r].lookupTs >= CACHE_TTL
        /\ CacheHas(IMAGE_CACHE, req[r].cacheKey)
        /\ CacheGet(IMAGE_CACHE, req[r].cacheKey).timestamp = req[r].lookupTs
        /\ Len(IMAGE_CACHE) >= MAX_CACHE_SIZE


(***************************************************************************)
(* Properties of negotiation and of the responses (checked under SpecSeq). *)
(***************************************************************************)

\* The handler has resolved the target format (it is past line 190).
Negotiated(q) == q.pc \notin {"idle", "import", "access"}

\* The request asks for no size and its target format is the format of the
\* origin file globby found.
BypassEligible(q) ==
    /\ q.origFile # NoFile
    /\ q.resImgFormat = q.origFile.ext
    /\ IsNullish(q.width) /\ IsNullish(q.height)

\* C6: a request with neither width nor height whose target format is the
\* origin's format is answered with the origin file's bytes and X-Cache:
\* BYPASS, without reading the file into memory or calling a converter, and
\* the cache is changed only by steps of requests that are not of this kind.
C6_BypassUntouched ==
    /\ [](\A r \in Tasks :
            BypassEligible(req[r]) =>
               /\ req[r].pc = "done" /\ req[r].status = 200
               /\ req[r].xcache = "BYPASS"
               /\ req[r].body = FileBytes(req[r].origFile)
               /\ req[r].contentType = IMAGE_MIME_TYPE(req[r].origFile.ext)
               /\ ~req[r].readFile /\ ~req[r].decoded /\ ~req[r].encoded)
    /\ [][ IMAGE_CACHE' # IMAGE_CACHE =>
             \E r \in Tasks : req'[r] # req[r] /\ ~BypassEligible(req'[r]) ]_vars

\* A png origin was streamed as it is while the cache held an entry.
C6_Witness ==
    \E r \in Tasks :
        /\ BypassEligible(req[r]) /\ req[r].xcache = "BYPASS"
        /\ req[r].resImgFormat = "png"
        /\ IMAGE_CACHE # <<>>

\* The target format the resolution order gives.
ExpectedFormat(q) ==
    IF ~IsNullish(q.format) THEN q.format[1]
    ELSE IF q.acceptsWebP /\ q.imageFile.ext # "webp" /\ WebpExists(q.imageFile.name)
         THEN "webp"
         ELSE q.imageFile.ext

\* C7: the target format is the explicit format parameter when one is
\* present; else webp when Accept has image/webp, the path's format is not
\* webp and <imageId>.webp exists; else the path's format.  A webp target is
\* served as image/webp.
C7_ResolutionOrder ==
    \A r \in Tasks :
        Negotiated(req[r]) =>
           /\ req[r].resImgFormat = ExpectedFormat(req[r])
           /\ (req[r].status = 200 /\ req[r].resImgFormat = "webp")
                 => req[r].contentType = "image/webp"

\* The target format was set to webp by the probe for <imageId>.webp.
ByNegotiation(q) ==
    q.probed /\ WebpExists(q.imageFile.name) /\ q.resImgFormat = "webp"

\* The target format is the one the format parameter names.
ByExplicitFormat(q) == ~IsNullish(q.format) /\ q.resImgFormat = q.format[1]

\* C8: on the BYPASS, HIT and MISS responses, Vary: Accept is set when the
\* target is webp chosen by negotiation and is not set when the target was
\* chosen by an explicit format parameter.
C8_VaryOnlyOnNegotiation ==
    \A r \in Tasks :
        (req[r].pc = "done" /\ req[r].status = 200) =>
           /\ ByNegotiation(req[r]) => req[r].vary
           /\ ByExplicitFormat(req[r]) => ~req[r].vary

\* C9 as stated: every request whose imageId matches no file returns 404.
C9_MissingIs404 ==
    \A r \in Tasks :
        (req[r].pc = "done" /\ GlobMatches(req[r].imageFile.name) = {})
            => req[r].status = 404

\* C9 amended: a request whose imageId matches no file returns 404 when its
\* resolved target format is a supported one, and 501 when it is not.
C9_MissingIs404WhenSupported ==
    \A r \in Tasks :
        (req[r].pc = "done" /\ GlobMatches(req[r].imageFile.name) = {})
            => req[r].status =
                  (IF isSupportedImageFormat(req[r].resImgFormat) THEN 404 ELSE 501)

\* A request for a missing image, with a supported target, ended 404.
C9_Witness ==
    \E r \in Tasks :
        /\ req[r].pc = "done" /\ GlobMatches(req[r].imageFile.name) = {}
        /\ isSupportedImageFormat(req[r].resImgFormat)
        /\ req[r].status = 404 /\ req[r].globbed

\* C10: a request whose resolved target format is not a supported one ends
\* with 501 without the origin lookup, a file read or a converter call, and
\* the cache is changed only by steps of requests with a supported target.
C10_Unsupported501 ==
    /\ [](\A r \in Tasks :
            (Negotiated(req[r]) /\ ~isSupportedImageFormat(req[r].resImgFormat)) =>
               /\ req[r].pc = "done" /\ req[r].status = 501
               /\ ~req[r].globbed /\ ~req[r].streamed /\ ~req[r].readFile
               /\ ~req[r].decoded /\ ~req[r].encoded
               /\ req[r].body = NoBytes)
    /\ [][ IMAGE_CACHE' # IMAGE_CACHE =>
             \E r \in Tasks : /\ req'[r] # req[r]
                              /\ isSupportedImageFormat(req[r].resImgFormat) ]_vars

\* format=tiff was answered 501 while the cache held an entry.
C10_Witness ==
    \E r \in Tasks :
        /\ req[r].pc = "done" /\ req[r].status = 501
        /\ req[r].format = Some("tiff")
        /\ IMAGE_CACHE # <<>>

\* The step in which task r's response becomes an error response.
ErrorStep(r) == req[r].pc # "done" /\ req'[r].pc = "done" /\ req'[r].status # 200

\* The step in which task r's encode resolves and its result is stored.
StoreStep(r) == req[r].pc = "encode" /\ req'[r].pc = "done" /\ req'[r].status = 200

\* C11: a step that ends a request with an error (404, 501, or the 500 of a
\* failed decode, resize or encode) leaves the cache exactly as it was; the
\* cache changes only in the step that returns a transcoded result.
C11_ErrorsLeaveCache ==
    /\ [][ \A r \in Tasks : ErrorStep(r) => IMAGE_CACHE' = IMAGE_CACHE ]_vars
    /\ [][ IMAGE_CACHE' # IMAGE_CACHE => \E r \in Tasks : StoreStep(r) ]_vars

\* A conversion failed after an earlier request had filled the cache.
C11_Witness ==
    \E r \in Tasks :
        /\ req[r].pc = "done" /\ req[r].status = 500 /\ req[r].decoded
        /\ IMAGE_CACHE # <<>>
        /\ ~CacheHas(IMAGE_CACHE, req[r].cacheKey)

\* The indices of the entries stored under key.
EntriesFor(cache, key) == { i \in 1..Len(cache) : cache[i].key = key }

\* C12: there is no single-flight: a task whose lookup missed transcodes and
\* stores on its own, whatever the other task is doing; each such store
\* answers MISS and leaves exactly one entry for the key, the whole entry
\* just written, and two tasks that both stored one key find one entry.
C12_NoSingleFlight ==
    /\ [][ \A r \in Tasks : StoreStep(r) =>
             /\ req[r].readFile /\ req[r].decoded /\ req[r].encoded
             /\ req'[r].xcache = "MISS"
             /\ \E i \in 1..Len(IMAGE_CACHE') :
                  /\ EntriesFor(IMAGE_CACHE', req[r].cacheKey) = {i}
                  /\ IMAGE_CACHE'[i] =
                       [key |-> req[r].cacheKey, data |-> req'[r].body,
                        mimeType |-> req'[r].contentType,
                        timestamp |-> clock'] ]_vars
    /\ [](\A r1, r2 \in Tasks :
            (r1 # r2 /\ Stored(r1) /\ Stored(r2)
             /\ req[r1].cacheKey = req[r2].cacheKey) =>
               \E i \in 1..Len(IMAGE_CACHE) :
                  /\ EntriesFor(IMAGE_CACHE, req[r1].cacheKey) = {i}
                  /\ IMAGE_CACHE[i].data = req[r1].body
                  /\ IMAGE_CACHE[i].data = req[r2].body
                  /\ IMAGE_CACHE[i].mimeType = req[r2].contentType)

\* Two tasks missed on one key at once: both answered MISS, the second
\* store found the key already present, and no entry can have expired yet.
C12_Witness ==
    \E r1, r2 \in Tasks :
        /\ r1 # r2 /\ Stored(r1) /\ Stored(r2)
        /\ req[r1].cacheKey = req[r2].cacheKey
        /\ ~req[r1].hadKey /\ req[r2].hadKey
        /\ clock < CACHE_TTL

\* The entry stored for a request: under the request's key, with the mime
\* type of the format in that key.
EntryOf(q, entry) ==
    /\ entry.key = cacheKey(q.imageFile.name, q.resImgFormat, q.width, q.height)
    /\ entry.mimeType = IMAGE_MIME_TYPE(q.resImgFormat)
    /\ entry.data = EncodedBytes(q.origFile, q.resImgFormat, q.width, q.height)

\* C19: a lookup that finds an entry younger than CACHE_TTL under the
\* request's key answers HIT with exactly the bytes and the mime type of that
\* entry; an entry is what a MISS stored, under the key of that request and
\* with the mime type of the format in the key, and stays as stored for as
\* long as it is in the cache.
C19_HitReturnsStored ==
    /\ [][ \A r \in Tasks :
             LET key == cacheKey(req[r].imageFile.name, req[r].resImgFormat,
                                 req[r].width, req[r].height)
             IN  (LookupStep(r) /\ CacheHas(IMAGE_CACHE, key)
                  /\ clock - CacheGet(IMAGE_CACHE, key).timestamp < CACHE_TTL) =>
                    /\ req'[r].pc = "done" /\ req'[r].status = 200
                    /\ req'[r].xcache = "HIT"
                    /\ req'[r].body = CacheGet(IMAGE_CACHE, key).data
                    /\ req'[r].contentType = CacheGet(IMAGE_CACHE, key).mimeType
                    /\ ~req'[r].readFile ]_vars
    /\ [][ IMAGE_CACHE' # IMAGE_CACHE =>
             \A i \in 1..Len(IMAGE_CACHE') :
                \/ \E j \in 1..Len(IMAGE_CACHE) : IMAGE_CACHE'[i] = IMAGE_CACHE[j]
                \/ \E r \in Tasks :
                     /\ StoreStep(r) /\ req'[r].xcache = "MISS"
                     /\ EntryOf(req[r], IMAGE_CACHE'[i]) ]_vars

\* A request was answered HIT from an entry stored at an earlier time.
C19_Witness ==
    \E r \in Tasks :
        /\ req[r].pc = "done" /\ req[r].xcache = "HIT"
        /\ FoundEntry(req[r]) /\ req[r].lookupNow > req[r].lookupTs
        /\ req[r].body = EncodedBytes(req[r].origFile, req[r].resImgFormat,
                                      req[r].width, req[r].height)

\* C13: two requests get the same key exactly when they agree on the image
\* id, the target format, the width and the height, an omitted dimension
\* counting as a value of its own (written "auto") that no number equals,
\* 0 included.
C13_KeyInjective ==
    keyed.pc = "done" =>
        /\ (keyed.ka = keyed.kb) <=> (keyed.a = keyed.b)
        /\ (IsNullish(keyed.a.width) /\ IsNullish(keyed.a.height)) =>
              keyed.ka = keyed.a.id \o "_" \o keyed.a.format \o "_auto_auto"
        /\ (IsNullish(keyed.a.width) /\ ~IsNullish(keyed.b.width)
            /\ ~IsNullish(keyed.b.height)) => keyed.ka # keyed.kb

\* One request omits the width, the other gives width=0, all else equal,
\* and the keys built for them differ.
C13_Witness ==
    /\ keyed.pc = "done"
    /\ keyed.a.width = Absent /\ keyed.b.width = Some(0)
    /\ keyed.a.id = keyed.b.id /\ keyed.a.format = keyed.b.format
    /\ keyed.a.height = keyed.b.height
    /\ keyed.ka # keyed.kb

(***************************************************************************)
(* Properties of the response middlewares (checked under SpecMw).          *)
(***************************************************************************)

\* The stage has run on the response.
Ran(stage) == res.pc # "idle" /\ \E i \in 1..Len(res.ran) : res.ran[i] = stage

\* The response was handed to the Compression Stage with a Content-Length
\* header that declares fewer than 1024 bytes.
DeclaredSmall ==
    /\ res.given # Absent
    /\ parseInt(res.given[1]) # NaN
    /\ parseInt(res.given[1])[1] < 1024

\* C14: a response that reaches the Compression Stage with a declared
\* Content-Length below 1024 leaves it uncompressed: body untouched, no
\* Content-Encoding, Content-Length kept, whatever its content type and the
\* request's Accept-Encoding.
C14_SmallNeverCompressed ==
    (Ran("compress") /\ DeclaredSmall) =>
        /\ res.body = PlainBody
        /\ res.contentEncoding = Absent
        /\ res.contentLength = res.given

\* One of the three skip rules of the Compression Stage applies.
SkipRule ==
    \/ DeclaredSmall
    \/ StartsWith(OrElse(res.contentType, ""), "image/")
    \/ encoding(res.acceptEncoding) # "zstd"

\* C15: the Compression Stage compresses exactly the responses to which no
\* skip rule applies; a compressed response has Content-Encoding zstd and no
\* Content-Length, a skipped one no Content-Encoding and the Content-Length
\* it came with.
C15_CompressedExactlyWhen ==
    Ran("compress") =>
        /\ (res.body.coding = "zstd") <=> ~SkipRule
        /\ res.body.coding = "zstd" =>
              res.contentEncoding = Some("zstd") /\ res.contentLength = Absent
        /\ SkipRule =>
              /\ res.body = PlainBody /\ res.contentEncoding = Absent
              /\ res.contentLength = res.given

\* The classes of 4.6 over the media types and URLs explored.
ImageTypes  == { "image/png" }
ScriptTypes == { "text/javascript", "text/css" }
DataTypes   == { "application/json", "text/html; charset=utf-8" }
ImageOrAssetUrls == { "http://localhost:8000/images/a.png",
                      "http://localhost:8000/assets/client.global.js" }

ClassValue(url, contentType) ==
    IF contentType \in ImageTypes \/ url \in ImageOrAssetUrls
    THEN "public, max-age=31536000, immutable"
    ELSE IF contentType \in ScriptTypes
    THEN "public, max-age=31536000, immutable"
    ELSE IF contentType \in DataTypes
    THEN "private, max-age=0, must-revalidate"
    ELSE "private, no-store"

\* C16: the step of the Cache-Control Stage leaves the response with one
\* Cache-Control value and no other, that of the first class it belongs to,
\* whatever values it carried before, and changes nothing else.
C16_OneCacheControl ==
    [][ (res.pc = "handled" /\ res'.pc # "idle"
         /\ Head(res.todo) = "cacheControl" /\ res'.ran # res.ran) =>
            /\ res'.cacheControl =
                 << ClassValue(res.url, OrElse(res.contentType, "")) >>
            /\ res'.body = res.body
            /\ res'.contentType = res.contentType
            /\ res'.contentEncoding = res.contentEncoding ]_vars

\* A JSON response under /images/ reached the Cache-Control Stage carrying
\* two Cache-Control values and left it with the long-lived one alone.
C16_Witness ==
    /\ res.pc = "sent" /\ res.ran = <<"compress", "cacheControl">>
    /\ Includes(res.url, "/images/")
    /\ res.contentType = Some("application/json")
    /\ res.before = <<"no-cache">>
    /\ res.cacheControl = <<"public, max-age=31536000, immutable">>

\* C20: when the Cache-Control Stage runs after the Compression Stage, a
\* response sent with Content-Encoding set has no-transform among its
\* Cache-Control directives.
C20_NoTransformSurvives ==
    (res.pc = "sent" /\ res.ran = <<"compress", "cacheControl">>
     /\ res.contentEncoding # Absent) =>
        \E i \in 1..Len(res.cacheControl) :
            Includes(res.cacheControl[i], "no-transform")

(***************************************************************************)
(* Properties of the resize (checked under SpecResize).                    *)
(***************************************************************************)

\* ceil(ow * s) x ceil(oh * s) for s = max(w / ow, h / oh), s = 1 when both
\* are absent, in exact arithmetic.
ExactDims(ow, oh, width, height) ==
    LET w == IF width = Absent THEN 0 ELSE width[1]
        h == IF height = Absent THEN 0 ELSE height[1]
    IN  IF width = Absent /\ height = Absent THEN <<ow, oh>>
        ELSE IF w * oh >= h * ow
             THEN << (ow * w + ow - 1) \div ow, (oh * w + ow - 1) \div ow >>
             ELSE << (ow * h + oh - 1) \div oh, (oh * h + oh - 1) \div oh >>

\* C17: the output of the resize is ceil(ow * s) x ceil(oh * s) with the one
\* factor s = max(w / ow, h / oh), an absent dimension counting as 0 and s
\* being 1 when both are absent; each output dimension is at least the one
\* asked for, and a 200x200 image asked for at 100x50 comes out 100x100.
C17_ResizeDims ==
    resized.pc = "resized" =>
        /\ <<resized.out.width, resized.out.height>> =
              ExactDims(resized.ow, resized.oh, resized.width, resized.height)
        /\ resized.width # Absent => resized.out.width >= resized.width[1]
        /\ resized.height # Absent => resized.out.height >= resized.height[1]
        /\ (resized.ow = 200 /\ resized.oh = 200 /\ resized.width = Some(100)
            /\ resized.height = Some(50)) =>
              resized.out = [width |-> 100, height |-> 100]

(***************************************************************************)
(* Properties of the bypass body (checked under SpecStream).               *)
(***************************************************************************)

\* C18: however the streaming ends (end of file, cancellation by the
\* client, read error), the file stream is eventually released and the
\* response body eventually closed, cancelled or errored.
C18_StreamEnds ==
    <>( /\ streamBody.file = "closed"
        /\ streamBody.body \in {"closed", "cancelled", "errored"} )

(***************************************************************************)
(* Overwriting a key that is present (checked under Spec).                 *)
(***************************************************************************)

\* C21: a store removes an entry under another key only when the key it
\* stores was absent and the cache already held MAX_CACHE_SIZE entries; a
\* store under a key that is present (a stale entry, or the second write of
\* two concurrent misses) removes no entry of another key.
C21_OverwriteKeepsOthers ==
    \A r \in Tasks :
        Stored(r) =>
            \A i \in 1..Len(req[r].removed) :
                req[r].removed[i].key # req[r].cacheKey =>
                    /\ ~req[r].hadKey
                    /\ req[r].sizeBefore >= MAX_CACHE_SIZE

====
